---------------------------- MODULE Spec2Model ----------------------------
(***************************************************************************)
(* A model of the ROR e-mail matcher (src/ror_email_match): the query      *)
(* generator, the registry fetch, the DNS and WHOIS comparators, the       *)
(* composite match scorer and the ranking done by                          *)
(* OrganizationFinder.find_org_associated_with_email.                      *)
(*                                                                         *)
(* Python strings are TLA+ strings; characters are read with SubSeq.       *)
(* Python None is the model value None; a Python list is a sequence.       *)
(***************************************************************************)
EXTENDS Integers, Sequences, FiniteSets, TLC

VARIABLES
    pc,               \* position of the running call
    email,            \* the email argument
    dnsWorld,         \* what the DNS resolver answers during this run
    whoisWorld,       \* what the WHOIS registrar answers during this run
    initial_dns,      \* find_org: initial_dns_results
    queries,          \* find_org: queries
    qi,               \* fetch_ror_data: number of queries already requested
    results,          \* find_org: results
    scored_results,   \* find_org: scored_results
    exc,              \* the exception that ended the call, "" if none
    arg,              \* arguments of a direct call of calculate_match_score
    ret               \* value returned by the direct call

vars == <<pc, email, dnsWorld, whoisWorld, initial_dns, queries, qi, results,
          scored_results, exc, arg, ret>>

None == "<None>"

--------------------------------------------------------------------------
(* Python built-ins used by the program.                                   *)

Min(a, b) == IF a <= b THEN a ELSE b

Max(a, b) == IF a >= b THEN a ELSE b

Ch(s, i) == SubSeq(s, i, i)

\* s[i:] with a 0-based Python index i >= 0
From(s, i) == IF i >= Len(s) THEN "" ELSE SubSeq(s, i + 1, Len(s))

StartsWithAt(s, p, i) ==
    /\ i + Len(p) - 1 <= Len(s)
    /\ SubSeq(s, i, i + Len(p) - 1) = p

\* str.startswith
StartsWith(s, p) == StartsWithAt(s, p, 1)

\* str.find, 1-based; 0 when p does not occur
Find(s, p) ==
    LET hits == {i \in 1..(Len(s) - Len(p) + 1) : StartsWithAt(s, p, i)}
    IN  IF hits = {} THEN 0 ELSE CHOOSE i \in hits : \A j \in hits : i <= j

\* the Python operator "p in s" on strings
Contains(s, p) == \E i \in 1..(Len(s) - Len(p) + 1) : StartsWithAt(s, p, i)

\* str.count of a one-character string
Count(s, c) == Cardinality({i \in 1..Len(s) : Ch(s, i) = c})

RECURSIVE Split(_, _)
\* str.split(c) for a one-character separator
Split(s, c) ==
    LET i == Find(s, c)
    IN  IF i = 0 THEN <<s>>
        ELSE <<SubSeq(s, 1, i - 1)>> \o Split(From(s, i), c)

RECURSIVE Join(_, _)
\* c.join(parts)
Join(parts, c) ==
    IF Len(parts) = 0 THEN ""
    ELSE IF Len(parts) = 1 THEN parts[1]
    ELSE parts[1] \o c \o Join(Tail(parts), c)

\* seq[-1]
Last(seq) == seq[Len(seq)]

\* str.replace(c, d, 1)
ReplaceFirst(s, c, d) ==
    LET i == Find(s, c)
    IN  IF i = 0 THEN s ELSE SubSeq(s, 1, i - 1) \o d \o From(s, i + Len(c) - 1)

RECURSIVE LStrip(_, _)
\* str.lstrip(chars): drops every leading character that occurs in chars
LStrip(s, chars) ==
    IF Len(s) > 0 /\ Contains(chars, Head(s)) THEN LStrip(Tail(s), chars) ELSE s

LowerLetters ==
    {"a", "b", "c", "d", "e", "f", "g", "h", "i", "j", "k", "l", "m",
     "n", "o", "p", "q", "r", "s", "t", "u", "v", "w", "x", "y", "z"}

UpperOf ==
    [c \in LowerLetters |->
        CASE c = "a" -> "A" [] c = "b" -> "B" [] c = "c" -> "C" [] c = "d" -> "D"
          [] c = "e" -> "E" [] c = "f" -> "F" [] c = "g" -> "G" [] c = "h" -> "H"
          [] c = "i" -> "I" [] c = "j" -> "J" [] c = "k" -> "K" [] c = "l" -> "L"
          [] c = "m" -> "M" [] c = "n" -> "N" [] c = "o" -> "O" [] c = "p" -> "P"
          [] c = "q" -> "Q" [] c = "r" -> "R" [] c = "s" -> "S" [] c = "t" -> "T"
          [] c = "u" -> "U" [] c = "v" -> "V" [] c = "w" -> "W" [] c = "x" -> "X"
          [] c = "y" -> "Y" [] c = "z" -> "Z"]

RECURSIVE Upper(_)
\* str.upper
Upper(s) ==
    IF Len(s) = 0 THEN ""
    ELSE (IF Head(s) \in LowerLetters THEN UpperOf[Head(s)] ELSE Head(s))
         \o Upper(Tail(s))

\* the set of the elements of a sequence
Range(seq) == {seq[i] : i \in 1..Len(seq)}

\* every sequence that lists the elements of the finite set S once
Orders(S) ==
    {f \in [1..Cardinality(S) -> S] : \A i, j \in 1..Cardinality(S) : f[i] = f[j] => i = j}


--------------------------------------------------------------------------
(* tldextract.extract, the library call the scorer and the query generator *)
(* decompose domains with.  The public suffix list is the library's data;  *)
(* the model carries the entries its inputs exercise.  Inputs are lower    *)
(* case, carry no port and no IP address.                                  *)

PublicSuffixes == {"com", "org", "uk", "ac.uk"}

\* the host part tldextract looks at: scheme, path, query, fragment and
\* userinfo removed, trailing dots stripped
RECURSIVE RStripDots(_)
RStripDots(s) ==
    IF Len(s) > 0 /\ Ch(s, Len(s)) = "." THEN RStripDots(SubSeq(s, 1, Len(s) - 1)) ELSE s

Before(s, c) == LET i == Find(s, c) IN IF i = 0 THEN s ELSE SubSeq(s, 1, i - 1)

SchemeChars == LowerLetters \cup {"0", "1", "2", "3", "4", "5", "6", "7", "8", "9", "+", ".", "-"}

\* a leading "scheme://" (or "//") removed
Schemeless(url) ==
    LET i == Find(url, "://")
    IN  IF StartsWith(url, "//") THEN From(url, 2)
        ELSE IF /\ i > 1
                /\ Head(url) \in LowerLetters
                /\ \A j \in 1..(i - 1) : Ch(url, j) \in SchemeChars
             THEN From(url, i + 2)
        ELSE url

LenientNetloc(url) ==
    LET host == Before(Before(Before(Schemeless(url), "/"), "?"), "#")
    IN  RStripDots(Before(Last(Split(host, "@")), ":"))

\* 1-based index of the first label of the longest known suffix;
\* Len(labels) + 1 when no suffix is known
SuffixIndex(labels) ==
    LET n    == Len(labels)
        hits == {i \in 1..n : Join(SubSeq(labels, i, n), ".") \in PublicSuffixes}
    IN  IF hits = {} THEN n + 1 ELSE CHOOSE i \in hits : \A j \in hits : i <= j

Extract(s) ==
    LET labels == Split(LenientNetloc(s), ".")
        n      == Len(labels)
        k      == SuffixIndex(labels)
    IN  [subdomain |-> IF k >= 3 THEN Join(SubSeq(labels, 1, k - 2), ".") ELSE "",
         domain    |-> IF k >= 2 THEN labels[k - 1] ELSE "",
         suffix    |-> Join(SubSeq(labels, k, n), ".")]

\* ExtractResult.fqdn
Fqdn(p) ==
    IF p.suffix # "" /\ p.domain # ""
    THEN Join(SelectSeq(<<p.subdomain, p.domain, p.suffix>>, LAMBDA x : x # ""), ".")
    ELSE ""

--------------------------------------------------------------------------
(* RORClient                                                               *)

tlds ==
    {"ac", "ad", "ae", "af", "ag", "ai", "al", "am", "ao", "ar", "as", "at", "au", "aw", "ax", "az",
     "ba", "bb", "bd", "be", "bf", "bg", "bh", "bi", "bj", "bm", "bn", "bo", "br", "bs", "bt", "bv",
     "bw", "by", "bz", "ca", "cc", "cd", "cf", "cg", "ch", "ci", "ck", "cl", "cm", "cn", "co", "cr",
     "cu", "cv", "cw", "cx", "cy", "cz", "de", "dj", "dk", "dm", "do", "dz", "ec", "ee", "eg", "er",
     "es", "et", "eu", "fi", "fj", "fk", "fm", "fo", "fr", "ga", "gb", "gd", "ge", "gf", "gg", "gh",
     "gi", "gl", "gm", "gn", "gp", "gq", "gr", "gs", "gt", "gu", "gw", "gy", "hk", "hm", "hn", "hr",
     "ht", "hu", "id", "ie", "il", "im", "in", "io", "iq", "ir", "is", "it", "je", "jm", "jo", "jp",
     "ke", "kg", "kh", "ki", "km", "kn", "kp", "kr", "kw", "ky", "kz", "la", "lb", "lc", "li", "lk",
     "lr", "ls", "lt", "lu", "lv", "ly", "ma", "mc", "md", "me", "mg", "mh", "mk", "ml", "mm", "mn",
     "mo", "mp", "mq", "mr", "ms", "mt", "mu", "mv", "mw", "mx", "my", "mz", "na", "nc", "ne", "nf",
     "ng", "ni", "nl", "no", "np", "nr", "nu", "nz", "om", "pa", "pe", "pf", "pg", "ph", "pk", "pl",
     "pm", "pn", "pr", "ps", "pt", "pw", "py", "qa", "re", "ro", "rs", "ru", "rw", "sa", "sb", "sc",
     "sd", "se", "sg", "sh", "si", "sj", "sk", "sl", "sm", "sn", "so", "sr", "st", "su", "sv", "sx",
     "sy", "sz", "tc", "td", "tf", "tg", "th", "tj", "tk", "tl", "tm", "tn", "to", "tr", "tt", "tv",
     "tw", "tz", "ua", "ug", "uk", "us", "uy", "uz", "va", "vc", "ve", "vg", "vi", "vn", "vu", "wf",
     "ws", "ye", "yt", "za", "zm", "zw"}

\* the parts with the subdomain split whether or not there is one
PartsOfAnySubdomain(extracted) ==
    Split(extracted.subdomain, ".") \o <<extracted.domain>>

\* generate_ror_queries: the label chain of the email's domain
Parts(extracted) ==
    IF extracted.subdomain # ""
    THEN Split(extracted.subdomain, ".") \o <<extracted.domain>>
    ELSE <<extracted.domain>>

\* a template chosen by the suffix as a whole rather than by its last segment
BaseQueryByWholeSuffix(suffix) ==
    IF suffix \in tlds
    THEN "https://api.ror.org/v2/organizations?query.advanced=locations.geonames_details.country_code:"
         \o Upper(suffix) \o "%20AND%20links.type:website%20AND%20links.value:"
    ELSE "https://api.ror.org/v2/organizations?query.advanced=links.type:website%20AND%20links.value:"

\* generate_ror_queries: the query template of the suffix
BaseQuery(suffix) ==
    IF Last(Split(suffix, ".")) \in tlds
    THEN "https://api.ror.org/v2/organizations?query.advanced=locations.geonames_details.country_code:"
         \o Upper(suffix) \o "%20AND%20links.type:website%20AND%20links.value:"
    ELSE "https://api.ror.org/v2/organizations?query.advanced=links.type:website%20AND%20links.value:"

\* the variants without the chains that stop before the registrable label
DomainVariantsToTheEnd(parts) ==
    {Join(SubSeq(parts, i, Len(parts)), ".") : i \in 1..Len(parts)} \cup Range(parts)

\* generate_ror_queries: the set domain_variants after the loop and the update
DomainVariants(parts) ==
    LET n == Len(parts)
    IN  UNION {
            {Join(SubSeq(parts, i, n), ".")}
            \cup (IF i < n THEN {Join(SubSeq(parts, i, n - 1), ".")} ELSE {})
            : i \in 1..n }
        \cup Range(parts)

RECURSIVE InsertByDots(_, _)
\* x placed behind every element of the sorted sequence whose dot count is
\* not larger than its own
InsertByDots(sorted, x) ==
    IF Len(sorted) = 0 THEN <<x>>
    ELSE IF Count(Head(sorted), ".") <= Count(x, ".")
         THEN <<Head(sorted)>> \o InsertByDots(Tail(sorted), x)
         ELSE <<x>> \o sorted

\* the variants in the order the set yields them, not sorted
UnsortedVariants(iter) == iter

RECURSIVE SortedByDots(_)
\* sorted(iter, key=lambda x: x.count('.')): stable, ascending
SortedByDots(iter) ==
    IF Len(iter) = 0 THEN <<>>
    ELSE InsertByDots(SortedByDots(SubSeq(iter, 1, Len(iter) - 1)), Last(iter))

\* generate_ror_queries; iter is the order in which Python iterates the set
\* domain_variants (any order: string hashes are randomised per process)
generate_ror_queries(e, iter) ==
    LET extracted == Extract(Last(Split(e, "@")))
        sorted    == SortedByDots(iter)
    IN  [i \in 1..Len(sorted) |-> BaseQuery(extracted.suffix) \o sorted[i]]

\* the iteration orders of the set domain_variants of an email
IterationOrders(e) == Orders(DomainVariants(Parts(Extract(Last(Split(e, "@"))))))


--------------------------------------------------------------------------
(* DNSAnalyzer.  A resolver answer is read from the zone data of the run's *)
(* DNS world; a query that fails yields the empty answer, as the except    *)
(* clauses of the get_* methods make it.  Record lists are kept in the     *)
(* order the world gives them (get_mx_records sorts; only set(...) of the  *)
(* list is ever read).                                                     *)

\* an absent dict (Python None)
NoDict == <<>>

IsDict(d) == DOMAIN d # {}

\* bool(x) of a str-or-None value
Truthy(x) == x # None /\ x # ""

get_domain_from_email(e) == Last(Split(e, "@"))

\* urllib.parse.urlparse(url).netloc and .path of a url that has a scheme
UrlRest(url) == From(url, Find(url, "://") + 2)

UrlNetloc(url) == Before(Before(Before(UrlRest(url), "/"), "?"), "#")

UrlPath(url) ==
    Before(Before(From(UrlRest(url), Len(UrlNetloc(url))), "?"), "#")

get_domain_from_url(url) ==
    LET u      == IF StartsWith(url, "http://") \/ StartsWith(url, "https://")
                  THEN url ELSE "http://" \o url
        domain == IF UrlNetloc(u) # "" THEN UrlNetloc(u) ELSE UrlPath(u)
    IN  IF StartsWith(domain, "www.") THEN LStrip(domain, "www.") ELSE domain

NoZone ==
    [mx_records |-> <<>>, ns_records |-> <<>>, a_records |-> <<>>,
     aaaa_records |-> <<>>, cname_record |-> None, soa_email |-> None,
     txt_records |-> <<>>]

\* the zone data of the DNS worlds
SharedZone(domain) ==
    CASE domain = "example.com" ->
            [mx_records |-> <<"mx.example.com">>,
             ns_records |-> <<"ns1.example.com", "ns2.example.com">>,
             a_records |-> <<"192.0.2.1">>, aaaa_records |-> <<"2001:db8::1">>,
             cname_record |-> None, soa_email |-> "hostmaster.example.com",
             txt_records |-> <<<<"site-verification=1">>,
                               <<"v=spf1 include:spf.example.com ~all">>>>]
      [] domain = "mail.example.com" ->
            [mx_records |-> <<"mx.example.com">>,
             ns_records |-> <<"ns1.example.com", "ns2.example.com">>,
             a_records |-> <<"192.0.2.2">>, aaaa_records |-> <<>>,
             cname_record |-> None, soa_email |-> "hostmaster.example.com",
             txt_records |-> <<<<"v=spf1 include:spf.example.com ~all">>>>]
      [] domain = "dept.example.com" ->
            [mx_records |-> <<"mx.example.com">>,
             ns_records |-> <<"ns2.example.com", "ns1.example.com">>,
             a_records |-> <<"192.0.2.1", "192.0.2.3">>,
             aaaa_records |-> <<"2001:db8::1">>,
             cname_record |-> "example.com", soa_email |-> "hostmaster.example.com",
             txt_records |-> <<<<"v=spf1  ip4:192.0.2.0/24 include:spf.example.com -all">>>>]
      [] domain = "example.org" ->
            [mx_records |-> <<"mx.example.org">>,
             ns_records |-> <<"ns1.example.com">>,
             a_records |-> <<"198.51.100.7">>, aaaa_records |-> <<>>,
             cname_record |-> None, soa_email |-> "admin.mail.example.com",
             txt_records |-> <<<<"v=spf1 ip4:198.51.100.0/24 -all">>>>]
      [] domain = "example.mail.org" ->
            [mx_records |-> <<>>, ns_records |-> <<"ns.mail.org">>,
             a_records |-> <<"192.0.2.2">>, aaaa_records |-> <<>>,
             cname_record |-> None, soa_email |-> "root.mail.org",
             txt_records |-> <<>>]
      [] OTHER -> NoZone

DnsWorlds == {"down", "shared"}

Zone(world, domain) == IF world = "shared" THEN SharedZone(domain) ELSE NoZone

get_mx_records(world, domain) == Zone(world, domain).mx_records

get_ns_records(world, domain) == Zone(world, domain).ns_records

get_a_records(world, domain) == Zone(world, domain).a_records

get_aaaa_records(world, domain) == Zone(world, domain).aaaa_records

get_cname_record(world, domain) == Zone(world, domain).cname_record

get_soa_email(world, domain) == Zone(world, domain).soa_email

get_txt_records(world, domain) == Zone(world, domain).txt_records

\* all strings of all TXT records, in scan order
RECURSIVE Flatten(_)
Flatten(records) ==
    IF Len(records) = 0 THEN <<>> ELSE Head(records) \o Flatten(Tail(records))

find_spf(records) ==
    LET spf == SelectSeq(Flatten(records), LAMBDA r : Contains(r, "v=spf1"))
    IN  IF Len(spf) = 0 THEN None ELSE Head(spf)

\* the record set run_dns_analysis gathers for one domain
Analysis(world, domain) ==
    [domain       |-> domain,
     mx_records   |-> get_mx_records(world, domain),
     ns_records   |-> get_ns_records(world, domain),
     a_records    |-> get_a_records(world, domain),
     aaaa_records |-> get_aaaa_records(world, domain),
     cname_record |-> get_cname_record(world, domain),
     soa_email    |-> get_soa_email(world, domain),
     txt_records  |-> get_txt_records(world, domain),
     spf_record   |-> find_spf(get_txt_records(world, domain))]

\* an analysis that gathers the website records even for the email's own domain
run_dns_analysis_of_both(world, email_domain, website_domain) ==
    LET wd == IF Truthy(website_domain) THEN website_domain ELSE email_domain
    IN  [email_domain   |-> Analysis(world, email_domain),
         website_domain |-> Analysis(world, wd)]

\* website_domain is a str or None
run_dns_analysis(world, email_domain, website_domain) ==
    LET wd == IF Truthy(website_domain) THEN website_domain ELSE email_domain
    IN  IF wd # email_domain
        THEN [email_domain   |-> Analysis(world, email_domain),
              website_domain |-> Analysis(world, wd)]
        ELSE [email_domain |-> Analysis(world, email_domain)]

\* a relation that holds for identical SOA addresses only
soa_email_relation_identical(e, w) ==
    Truthy(e.soa_email) /\ Truthy(w.soa_email) /\ e.soa_email = w.soa_email

\* str.split(): the whitespace-separated tokens
SpfElements(spf) == {t \in Range(Split(spf, " ")) : t # ""}

soa_email_relation(e, w) ==
    IF Truthy(e.soa_email) /\ Truthy(w.soa_email)
    THEN LET email_soa_domain   == Last(Split(ReplaceFirst(e.soa_email, ".", "@"), "@"))
             website_soa_domain == Last(Split(ReplaceFirst(w.soa_email, ".", "@"), "@"))
         IN  \/ e.soa_email = w.soa_email
             \/ email_soa_domain = website_soa_domain
             \/ Contains(w.soa_email, e.domain)
             \/ Contains(e.soa_email, w.domain)
    ELSE FALSE

spf_similarity(e, w) ==
    IF Truthy(e.spf_record) /\ Truthy(w.spf_record)
    THEN LET common == SpfElements(e.spf_record) \cap SpfElements(w.spf_record)
         IN  \E element \in common :
                \/ StartsWith(element, "include:")
                \/ StartsWith(element, "ip4:")
                \/ StartsWith(element, "ip6:")
    ELSE FALSE

\* the sum of the six contributions with no cap at 100
relation_score_uncapped(sim) ==
    (IF sim.matching_nameservers # {}
        THEN 25 * Min(Cardinality(sim.matching_nameservers), 2) ELSE 0)
    + (IF sim.matching_a_records # {} THEN 30 ELSE 0)
    + (IF sim.matching_aaaa_records # {} THEN 15 ELSE 0)
    + (IF sim.matching_mx_records # {} THEN 20 ELSE 0)
    + (IF sim.soa_email_relation THEN 10 ELSE 0)
    + (IF sim.spf_similarity THEN 10 ELSE 0)

relation_score(sim) ==
    Min((IF sim.matching_nameservers # {}
            THEN 25 * Min(Cardinality(sim.matching_nameservers), 2) ELSE 0)
        + (IF sim.matching_a_records # {} THEN 30 ELSE 0)
        + (IF sim.matching_aaaa_records # {} THEN 15 ELSE 0)
        + (IF sim.matching_mx_records # {} THEN 20 ELSE 0)
        + (IF sim.soa_email_relation THEN 10 ELSE 0)
        + (IF sim.spf_similarity THEN 10 ELSE 0),
        100)

\* compare_dns_results; NoDict when the results hold no website domain.
\* The matching lists are kept as sets (the code sorts them for display).
compare_dns_results(dns) ==
    IF "website_domain" \notin DOMAIN dns THEN NoDict
    ELSE LET e   == dns.email_domain
             w   == dns.website_domain
             sim == [matching_nameservers  |-> Range(e.ns_records) \cap Range(w.ns_records),
                     matching_mx_records   |-> Range(e.mx_records) \cap Range(w.mx_records),
                     matching_a_records    |-> Range(e.a_records) \cap Range(w.a_records),
                     matching_aaaa_records |-> Range(e.aaaa_records) \cap Range(w.aaaa_records),
                     soa_email_relation    |-> soa_email_relation(e, w),
                     spf_similarity        |-> spf_similarity(e, w),
                     email_soa             |-> e.soa_email,
                     website_soa           |-> w.soa_email,
                     email_spf             |-> e.spf_record,
                     website_spf           |-> w.spf_record]
         IN  [k \in DOMAIN sim \cup {"relation_score"} |->
                 IF k = "relation_score" THEN relation_score(sim) ELSE sim[k]]


--------------------------------------------------------------------------
(* WHOISClient.  A WHOIS field is a str or None; the emails field is an    *)
(* optional list: <<>> for None, <<list>> for a list.                      *)

NoWhois ==
    [domain_name |-> None, org |-> None, name |-> None, emails |-> <<>>,
     address |-> None, city |-> None, state |-> None, country |-> None]

ExampleComWhois ==
    [domain_name |-> "EXAMPLE.COM", org |-> "Example University", name |-> None,
     emails |-> <<<<"abuse@example.com", "hostmaster@example.com">>>>,
     address |-> "1 Main St", city |-> "Springfield", state |-> "IL",
     country |-> "US"]

\* the registrar data of the WHOIS worlds
RegistrarRecord(domain) ==
    CASE domain \in {"example.com", "mail.example.com", "dept.example.com"} ->
            ExampleComWhois
      [] domain = "example.org" ->
            [domain_name |-> "EXAMPLE.ORG", org |-> "Example University",
             name |-> None, emails |-> <<<<"hostmaster@example.com">>>>,
             address |-> None, city |-> "Springfield", state |-> "IL",
             country |-> "US"]
      [] domain = "example.mail.org" ->
            [domain_name |-> "MAIL.ORG", org |-> "Mail Inc", name |-> "Mail Admin",
             emails |-> <<>>, address |-> "2 Side St", city |-> "Shelbyville",
             state |-> "IL", country |-> "US"]
      [] domain \in {"example.ac.uk", "mail.dept.example.ac.uk"} ->
            [domain_name |-> "example.ac.uk", org |-> None, name |-> "Example University",
             emails |-> <<<<>>>>, address |-> None, city |-> None,
             state |-> None, country |-> None]
      [] OTHER -> NoWhois

WhoisWorlds == {"redacted", "registrar"}

\* query_domain for a non-empty domain: the fields of whois.whois(domain)
query_domain(world, domain) ==
    IF world = "registrar" THEN RegistrarRecord(domain) ELSE NoWhois

SameField(r1, r2, f) == r1[f] = r2[f] /\ r1[f] # None /\ r2[f] # None

SameAddress(r1, r2) ==
    /\ SameField(r1, r2, "address")
    /\ SameField(r1, r2, "city")
    /\ SameField(r1, r2, "state")
    /\ SameField(r1, r2, "country")

\* two email lists that have an email in common
HaveSharedEmail(r1, r2) ==
    /\ Len(r1.emails) = 1 /\ Len(r2.emails) = 1
    /\ Range(r1.emails[1]) \cap Range(r2.emails[1]) # {}

BothHaveEmails(r1, r2) == Len(r1.emails) = 1 /\ Len(r2.emails) = 1

\* results['emails']: email1 appended once for every equal email2
SharedEmails(r1, r2) ==
    LET e1 == r1.emails[1]
        e2 == r2.emails[1]
    IN  Flatten([i \in 1..Len(e1) |-> SelectSeq(e2, LAMBDA x : x = e1[i])])

\* the sum match_score before the modulo
raw_match_score(r1, r2) ==
    (IF SameField(r1, r2, "domain_name") THEN 100 ELSE 0)
    + (IF SameField(r1, r2, "org") THEN 100 ELSE 0)
    + (IF SameField(r1, r2, "name") THEN 100 ELSE 0)
    + (IF SameAddress(r1, r2) THEN 50 ELSE 0)
    + (IF BothHaveEmails(r1, r2) THEN 80 ELSE 0)

\* the dict results of compare_domains
whois_matches(r1, r2) ==
    LET keys == {f \in {"domain_name", "org", "name"} : SameField(r1, r2, f)}
                \cup (IF SameAddress(r1, r2) THEN {"address"} ELSE {})
                \cup (IF BothHaveEmails(r1, r2) /\ Len(SharedEmails(r1, r2)) > 0
                      THEN {"emails"} ELSE {})
    IN  [k \in keys |-> IF k = "emails" THEN SharedEmails(r1, r2) ELSE r1[k]]

\* the pair with the sum reported as it stands, not reduced
compare_records_unreduced(r1, r2) ==
    <<raw_match_score(r1, r2), whois_matches(r1, r2)>>

\* lines 38-79: the pair compare_domains returns for the two lookups' fields
compare_records(r1, r2) ==
    <<raw_match_score(r1, r2) % 100, whois_matches(r1, r2)>>

\* compare_domains when both lookups answer: <<match_score, results>>;
\* None (here <<>>) when a domain is missing
compare_domains(world, domain1, domain2) ==
    IF ~Truthy(domain1) \/ ~Truthy(domain2) THEN <<>>
    ELSE compare_records(query_domain(world, domain1), query_domain(world, domain2))

--------------------------------------------------------------------------
(* MatchScorer.calculate_match_score                                       *)

ZeroBreakdown ==
    [fully_qualified_domain_name_match    |-> 0,
     domain_match                         |-> 0,
     website_is_subdomain_of_email_domain |-> 0,
     email_is_subdomain_of_website_domain |-> 0,
     subdomain_mismatch                   |-> 0,
     domain_of_email_in_website_subdomain |-> 0,
     domain_of_website_in_email_subdomain |-> 0,
     crossref_bonus                       |-> 0,
     dns_verification_bonus               |-> 0,
     dns_similarity_bonus                 |-> 0,
     whois_bonus                          |-> 0,
     total                                |-> 0]

\* sum(score_breakdown.values())
SumValues(sb) ==
    sb.fully_qualified_domain_name_match + sb.domain_match
    + sb.website_is_subdomain_of_email_domain + sb.email_is_subdomain_of_website_domain
    + sb.subdomain_mismatch + sb.domain_of_email_in_website_subdomain
    + sb.domain_of_website_in_email_subdomain + sb.crossref_bonus
    + sb.dns_verification_bonus + sb.dns_similarity_bonus + sb.whois_bonus
    + sb.total

\* the WHOIS match score taken as the bonus, neither scaled nor capped
whois_bonus_unscaled(whois_results) ==
    IF IsDict(whois_results)
    THEN (IF "match_score" \in DOMAIN whois_results THEN whois_results.match_score ELSE 0)
    ELSE 0

\* lines 85-88
whois_bonus(whois_results) ==
    IF IsDict(whois_results)
    THEN Min(20, (IF "match_score" \in DOMAIN whois_results
                  THEN whois_results.match_score ELSE 0) \div 5)
    ELSE 0

\* a hit for any A record of the link's domain, shared with the email or not
AHitWithoutOverlap(world, dns_results, link) ==
    Len(get_a_records(world, get_domain_from_url(link))) > 0

\* line 102: the A records of the link's domain, looked up now, overlap
\* those of the email domain
AHit(world, dns_results, link) ==
    LET email_a_records   == Range(dns_results.email_domain.a_records)
        website_a_records == Range(get_a_records(world, get_domain_from_url(link)))
    IN  /\ email_a_records \cap website_a_records # {}
        /\ email_a_records # {}
        /\ website_a_records # {}

\* lines 109-112
SoaHit(dns_results, link) ==
    LET soa_email == dns_results.email_domain.soa_email
    IN  IF Truthy(soa_email)
        THEN LET soa_domain == get_domain_from_email(ReplaceFirst(soa_email, ".", "@"))
             IN  /\ soa_domain # ""
                 /\ \/ Contains(link, soa_domain)
                    \/ Contains(soa_domain, get_domain_from_url(link))
        ELSE FALSE

RECURSIVE VerificationLoop(_, _, _, _)
\* lines 94-113: the loop over the links, left at the first A-record hit
VerificationLoop(world, dns_results, links, bonus) ==
    IF Len(links) = 0 THEN bonus
    ELSE IF AHit(world, dns_results, Head(links)) THEN 10
    ELSE VerificationLoop(world, dns_results, Tail(links),
                          IF SoaHit(dns_results, Head(links)) THEN Max(bonus, 5) ELSE bonus)

\* the bonus granted for the email domain's own A records, whatever the links
dns_verification_bonus_without_links(world, dns_results, links) ==
    IF IsDict(dns_results)
    THEN (IF Len(dns_results.email_domain.a_records) > 0 THEN 10
          ELSE VerificationLoop(world, dns_results, links, 0))
    ELSE 0

dns_verification_bonus(world, dns_results, links) ==
    IF IsDict(dns_results) THEN VerificationLoop(world, dns_results, links, 0) ELSE 0

\* lines 116-121
dns_similarity_bonus(dns_results) ==
    IF IsDict(dns_results) /\ "website_domain" \in DOMAIN dns_results
    THEN LET similarities == compare_dns_results(dns_results)
         IN  IF IsDict(similarities)
             THEN Min(15, similarities.relation_score \div 7)
             ELSE 0
    ELSE 0

\* lines 124-128: the link's FQDN with a leading www label cut off
LinkFqdn(link) ==
    LET result_fqdn == Fqdn(Extract(link))
    IN  IF Split(result_fqdn, ".")[1] = "www" THEN From(result_fqdn, 4) ELSE result_fqdn

\* the bonus granted for an external identifier of any type
crossref_bonus_for_any_id(external_ids) ==
    IF Len(external_ids) > 0 THEN 5 ELSE 0

\* lines 141-148: crossref_id is the first value of the last fundref entry
crossref_bonus(external_ids) ==
    LET fundrefs == SelectSeq(external_ids, LAMBDA x : x.type = "fundref")
    IN  IF Len(fundrefs) > 0 /\ Last(fundrefs).all[1] # "N/A" THEN 5 ELSE 0

\* a subdomain of any kind, www included
HasAnySubdomain(parts) == parts.subdomain # ""

\* lines 151-161: result_parts.subdomain and result_parts.subdomain != "www"
HasSub(parts) == parts.subdomain # "" /\ parts.subdomain # "www"

\* the domain match branch with the subdomain adjustments overwritten by
\* every link instead of aggregated
DomainMatchOverwriting(sb, email_parts, result_parts, external_ids) ==
    [sb EXCEPT
       !.domain_match = 80,
       !.crossref_bonus = crossref_bonus(external_ids),
       !.subdomain_mismatch =
           IF email_parts.subdomain # "" /\ HasSub(result_parts) THEN -10 ELSE 0,
       !.email_is_subdomain_of_website_domain =
           IF email_parts.subdomain # "" /\ ~HasSub(result_parts) THEN 10 ELSE 0,
       !.website_is_subdomain_of_email_domain =
           IF email_parts.subdomain = "" /\ HasSub(result_parts) THEN -10 ELSE 0]

\* the subdomain penalties of the domain match branch without the 80 of
\* domain_match
DomainMatchPenaltiesOnly(sb, email_parts, result_parts, external_ids) ==
    LET b1 == IF email_parts.subdomain # "" /\ HasSub(result_parts)
              THEN [sb EXCEPT !.subdomain_mismatch = Min(@, -10)] ELSE sb
    IN  IF email_parts.subdomain = "" /\ HasSub(result_parts)
        THEN [b1 EXCEPT !.website_is_subdomain_of_email_domain = Min(@, -10)] ELSE b1

\* lines 137-163: the link has the email's registrable domain
DomainMatch(sb, email_parts, result_parts, external_ids) ==
    LET b1 == [sb EXCEPT !.domain_match = Max(@, 80)]
        b2 == IF crossref_bonus(external_ids) = 5
              THEN [b1 EXCEPT !.crossref_bonus = 5] ELSE b1
        b3 == IF email_parts.subdomain # "" /\ HasSub(result_parts)
              THEN [b2 EXCEPT !.subdomain_mismatch = Min(@, -10)] ELSE b2
        b4 == IF email_parts.subdomain # "" /\ ~HasSub(result_parts)
              THEN [b3 EXCEPT !.email_is_subdomain_of_website_domain = Max(@, 10)] ELSE b3
    IN  IF email_parts.subdomain = "" /\ HasSub(result_parts)
        THEN [b4 EXCEPT !.website_is_subdomain_of_email_domain = Min(@, -10)] ELSE b4

\* lines 166-182: the registrable domains differ
DomainMismatch(sb, email_parts, result_parts, result_fqdn) ==
    IF result_parts.subdomain # "" /\ email_parts.subdomain # ""
    THEN LET all_parts == Split(result_parts.subdomain, ".")
             result_subdomain_parts ==
                 IF Split(result_fqdn, ".")[1] = "www" THEN Tail(all_parts) ELSE all_parts
             email_subdomain_parts == Split(email_parts.subdomain, ".")
             b1 == IF result_parts.domain \in Range(email_subdomain_parts)
                   THEN [sb EXCEPT !.domain_of_website_in_email_subdomain = Max(@, 20)]
                   ELSE sb
         IN  IF email_parts.domain \in Range(result_subdomain_parts)
             THEN [b1 EXCEPT !.domain_of_email_in_website_subdomain = Max(@, 20)]
             ELSE b1
    ELSE sb

\* line 184 and the return of line 186
Finish(sb) == [sb EXCEPT !.total = SumValues(sb)]

\* lines 132-134: the return taken at an exact FQDN match
ExactMatchReturn(sb) ==
    [sb EXCEPT !.fully_qualified_domain_name_match = Max(@, 100)]

RECURSIVE LinkLoop(_, _, _, _)
\* lines 123-186
LinkLoop(sb, email_parts, links, external_ids) ==
    IF Len(links) = 0 THEN Finish(sb)
    ELSE LET result_parts == Extract(Head(links))
             result_fqdn  == LinkFqdn(Head(links))
         IN  IF Fqdn(email_parts) = result_fqdn THEN ExactMatchReturn(sb)
             ELSE LinkLoop(IF email_parts.domain = result_parts.domain
                           THEN DomainMatch(sb, email_parts, result_parts, external_ids)
                           ELSE DomainMismatch(sb, email_parts, result_parts, result_fqdn),
                           email_parts, Tail(links), external_ids)

\* calculate_match_score(email, result, dns_results, whois_results); world
\* answers the A-record lookups the scorer makes itself
calculate_match_score(world, e, result, dns_results, whois_results) ==
    LET email_parts == Extract(Last(Split(e, "@")))
        b0 == [ZeroBreakdown EXCEPT
                 !.whois_bonus            = whois_bonus(whois_results),
                 !.dns_verification_bonus = dns_verification_bonus(world, dns_results, result.links),
                 !.dns_similarity_bonus   = dns_similarity_bonus(dns_results)]
    IN  LinkLoop(b0, email_parts, result.links, result.external_ids)


--------------------------------------------------------------------------
(* RORClient.fetch_ror_data and aggregate_links.  A registry item carries  *)
(* "links" and "domains" as optional lists (<<>> for null, <<list>>        *)
(* otherwise), as the emails of a WHOIS record.                            *)

Fundref == [type |-> "fundref", all |-> <<"100000001">>]

Grid == [type |-> "grid", all |-> <<"grid.1.1">>]

Website(url) == [type |-> "website", value |-> url]

Wikipedia(url) == [type |-> "wikipedia", value |-> url]

\* the organisations the registry knows
Registry ==
    {[id |-> "https://ror.org/01", name |-> "Example University",
      links |-> <<<<Website("https://www.example.com"),
                    Wikipedia("https://en.wikipedia.org/wiki/Example")>>>>,
      domains |-> <<<<>>>>, external_ids |-> <<Grid, Fundref>>],
     [id |-> "https://ror.org/02", name |-> "Example Department",
      links |-> <<<<Website("http://dept.example.com/")>>>>,
      domains |-> <<<<"example.org">>>>, external_ids |-> <<Grid>>],
     [id |-> "https://ror.org/03", name |-> "Mail Institute",
      links |-> <<<<Website("https://example.mail.org")>>>>,
      domains |-> <<>>, external_ids |-> <<>>],
     [id |-> "https://ror.org/04", name |-> "Unlinked Institute",
      links |-> <<>>, domains |-> <<<<>>>>, external_ids |-> <<Fundref>>]}

\* lines 127-135 for one result
AggregatedLinks(result) ==
    (IF Len(result.links) = 1
     THEN LET websites == SelectSeq(result.links[1], LAMBDA l : l.type = "website")
          IN  [i \in 1..Len(websites) |-> websites[i].value]
     ELSE <<>>)
    \o (IF Len(result.domains) = 1 THEN result.domains[1] ELSE <<>>)

aggregate_links(rs) ==
    [i \in 1..Len(rs) |-> [rs[i] EXCEPT !.links = AggregatedLinks(rs[i])]]

--------------------------------------------------------------------------
(* OrganizationFinder.find_org_associated_with_email                       *)

MaxResults == 3

BoundedSeqs(S, n) == UNION {[1..k -> S] : k \in 0..n}

\* the item lists of a registry response: no organisation listed twice
Responses(n) ==
    {items \in BoundedSeqs(Registry, n) :
        \A i, j \in 1..Len(items) : items[i] = items[j] => i = j}

Emails ==
    {"a@example.com", "a@mail.example.com", "a@mail.dept.example.ac.uk",
     "a@example.example.com", "a@example.local", "a@"}

RECURSIVE InsertBeforeTies(_, _)
\* x placed in front of the elements whose total equals its own
InsertBeforeTies(sorted, x) ==
    IF Len(sorted) = 0 THEN <<x>>
    ELSE IF Head(sorted)[2].total > x[2].total
         THEN <<Head(sorted)>> \o InsertBeforeTies(Tail(sorted), x)
         ELSE <<x>> \o sorted

RECURSIVE InsertByTotal(_, _)
\* x placed behind every element of the sorted sequence whose total is not
\* smaller than its own
InsertByTotal(sorted, x) ==
    IF Len(sorted) = 0 THEN <<x>>
    ELSE IF Head(sorted)[2].total >= x[2].total
         THEN <<Head(sorted)>> \o InsertByTotal(Tail(sorted), x)
         ELSE <<x>> \o sorted

RECURSIVE SortedByTotal(_)
\* list.sort(key=lambda x: x[1]["total"], reverse=True): stable, descending
SortedByTotal(scored) ==
    IF Len(scored) = 0 THEN <<>>
    ELSE InsertByTotal(SortedByTotal(SubSeq(scored, 1, Len(scored) - 1)), Last(scored))

\* the analysis run against the domain of the candidate's last link
DnsResultsForLastLink(result) ==
    IF Len(result.links) > 0
       /\ get_domain_from_url(Last(result.links)) # get_domain_from_email(email)
    THEN run_dns_analysis(dnsWorld, get_domain_from_email(email),
                          get_domain_from_url(Last(result.links)))
    ELSE initial_dns

\* lines 96-102: dns_results_for_result
DnsResultsFor(result) ==
    IF Len(result.links) > 0
       /\ get_domain_from_url(result.links[1]) # get_domain_from_email(email)
    THEN run_dns_analysis(dnsWorld, get_domain_from_email(email),
                          get_domain_from_url(result.links[1]))
    ELSE initial_dns

\* lines 105-109: whois_results_for_result of a pair compare_domains returned
WhoisResultsFor(pair) == [match_score |-> pair[1], matches |-> pair[2]]

\* lines 111-114: the tuple appended to scored_results
ScoredEntry(result, dns_results, whois_results) ==
    <<result,
      calculate_match_score(dnsWorld, email, result, dns_results, whois_results),
      dns_results, whois_results>>

Init ==
    /\ pc = "start"
    /\ email \in Emails
    /\ dnsWorld \in DnsWorlds
    /\ whoisWorld \in WhoisWorlds
    /\ initial_dns = NoDict
    /\ queries = <<>>
    /\ qi = 0
    /\ results = <<>>
    /\ scored_results = <<>>
    /\ exc = ""
    /\ arg = NoDict
    /\ ret = NoDict

\* lines 70-80
Start ==
    /\ pc = "start"
    /\ initial_dns' = run_dns_analysis(dnsWorld, get_domain_from_email(email), None)
    /\ \E iter \in IterationOrders(email) :
          queries' = generate_ror_queries(email, iter)
    /\ pc' = "fetch"
    /\ UNCHANGED <<email, dnsWorld, whoisWorld, qi, results, scored_results, exc, arg, ret>>

\* fetch_ror_data, one turn of its loop: the request for queries[qi + 1]
Fetch ==
    /\ pc = "fetch"
    /\ qi < Len(queries)
    /\ qi' = qi + 1
    /\ \/ \E items \in Responses(MaxResults - Len(results)) :
             results' = results \o items            \* status 200
       \/ results' = results                        \* another status
       \/ results' = results                        \* requests.RequestException, caught
    /\ UNCHANGED <<pc, email, dnsWorld, whoisWorld, initial_dns, queries,
                   scored_results, exc, arg, ret>>

\* lines 84-91
AfterFetch ==
    /\ pc = "fetch"
    /\ qi = Len(queries)
    /\ IF Len(results) = 0
       THEN pc' = "returned" /\ results' = results
       ELSE pc' = "score" /\ results' = aggregate_links(results)
    /\ UNCHANGED <<email, dnsWorld, whoisWorld, initial_dns, queries, qi,
                   scored_results, exc, arg, ret>>

\* lines 95-114, one turn of the loop; whois.whois may raise
Score ==
    /\ pc = "score"
    /\ Len(scored_results) < Len(results)
    /\ LET result == results[Len(scored_results) + 1]
           dns    == DnsResultsFor(result)
           pair   == compare_domains(whoisWorld, get_domain_from_email(email),
                                     get_domain_from_url(result.links[1]))
       IN  IF Len(result.links) = 0
           THEN /\ scored_results' = Append(scored_results, ScoredEntry(result, dns, NoDict))
                /\ UNCHANGED <<pc, exc>>
           ELSE \/ /\ Len(pair) = 2
                   /\ scored_results' =
                        Append(scored_results, ScoredEntry(result, dns, WhoisResultsFor(pair)))
                   /\ UNCHANGED <<pc, exc>>
                \/ /\ Len(pair) # 2          \* None cannot be unpacked
                   /\ pc' = "raised" /\ exc' = "TypeError"
                   /\ UNCHANGED scored_results
                \/ /\ Len(pair) = 2          \* the lookup itself fails
                   /\ pc' = "raised" /\ exc' = "WhoisError"
                   /\ UNCHANGED scored_results
    /\ UNCHANGED <<email, dnsWorld, whoisWorld, initial_dns, queries, qi, results, arg, ret>>

\* line 116
Sort ==
    /\ pc = "score"
    /\ Len(scored_results) = Len(results)
    /\ scored_results' = SortedByTotal(scored_results)
    /\ pc' = "print"
    /\ UNCHANGED <<email, dnsWorld, whoisWorld, initial_dns, queries, qi, results,
                   exc, arg, ret>>

\* lines 118-129 with print_organization_results, whose loop unpacks every
\* entry of scored_results into three names
PrintAndReturn ==
    /\ pc = "print"
    /\ IF \A i \in 1..Len(scored_results) : Len(scored_results[i]) = 3
       THEN pc' = "returned" /\ exc' = exc /\ ret' = [ror_scored_results |-> scored_results]
       ELSE pc' = "raised" /\ exc' = "ValueError" /\ ret' = ret
    /\ UNCHANGED <<email, dnsWorld, whoisWorld, initial_dns, queries, qi, results,
                   scored_results, arg>>

Next == Start \/ Fetch \/ AfterFetch \/ Score \/ Sort \/ PrintAndReturn

Spec == Init /\ [][Next]_vars


--------------------------------------------------------------------------
(* A direct call of MatchScorer.calculate_match_score, with every          *)
(* combination of its optional arguments.                                  *)

MaxLinks == 2

ScoreEmails == {"a@example.com", "a@mail.example.com", "a@mail.dept.example.ac.uk"}

ScoreLinks ==
    {"https://www.example.com", "example.com", "http://dept.example.com/",
     "https://example.org", "https://mail.example.com", "https://example.mail.org"}

ExternalIdLists == {<<>>, <<Grid>>, <<Grid, Fundref>>}

\* WHOIS match scores handed to the scorer (compare_domains reports 0..99)
WhoisScores == {0, 80, 99}

WhoisInputs ==
    {NoDict} \cup {[match_score |-> m, matches |-> <<>>] : m \in WhoisScores}

\* DNS results handed to the scorer: none, the email domain alone, or the
\* email domain with the domain of one of the links
DnsInputs(e, links) ==
    {NoDict}
    \cup {run_dns_analysis(w, get_domain_from_email(e), None) : w \in DnsWorlds}
    \cup {run_dns_analysis("shared", get_domain_from_email(e), get_domain_from_url(l)) :
            l \in Range(links)}

InitScore ==
    /\ pc = "call"
    /\ email = ""
    /\ dnsWorld = "shared"
    /\ whoisWorld = "redacted"
    /\ initial_dns = NoDict
    /\ queries = <<>>
    /\ qi = 0
    /\ results = <<>>
    /\ scored_results = <<>>
    /\ exc = ""
    /\ ret = NoDict
    /\ \E e \in ScoreEmails, links \in BoundedSeqs(ScoreLinks, MaxLinks),
          ids \in ExternalIdLists, w \in WhoisInputs :
          \E d \in DnsInputs(e, links) :
             arg = [email |-> e,
                    result |-> [links |-> links, external_ids |-> ids],
                    dns_results |-> d,
                    whois_results |-> w]

CallScore ==
    /\ pc = "call"
    /\ ret' = calculate_match_score(dnsWorld, arg.email, arg.result,
                                    arg.dns_results, arg.whois_results)
    /\ pc' = "called"
    /\ UNCHANGED <<email, dnsWorld, whoisWorld, initial_dns, queries, qi, results,
                   scored_results, exc, arg>>

NextScore == CallScore

SpecScore == InitScore /\ [][NextScore]_vars


--------------------------------------------------------------------------
(* Properties of the score breakdown (checked under SpecScore).            *)

\* the sum of the eleven components other than total
SumComponents(sb) == SumValues(sb) - sb.total

StripWww(fqdn) == IF StartsWith(fqdn, "www.") THEN From(fqdn, 4) ELSE fqdn

\* the link's FQDN, a leading www label stripped, is the email's FQDN
ExactFqdnLink(e, link) ==
    StripWww(Fqdn(Extract(link))) = Fqdn(Extract(get_domain_from_email(e)))

SomeExactFqdnLink ==
    \E i \in 1..Len(arg.result.links) : ExactFqdnLink(arg.email, arg.result.links[i])

\* C1: every returned breakdown has total equal to the sum of the other
\* eleven components, the return at an exact FQDN match included.
C1_TotalIsSum ==
    pc = "called" => ret.total = SumComponents(ret)

\* C2: when some link is an exact FQDN match (www stripped), the returned
\* breakdown has fully_qualified_domain_name_match = 100 and total = 100.
C2_ExactMatchTotal100 ==
    (pc = "called" /\ SomeExactFqdnLink) =>
        ret.fully_qualified_domain_name_match = 100 /\ ret.total = 100

\* C3: when some link is an exact FQDN match, every component other than
\* fully_qualified_domain_name_match is 0, wherever the matching link stands
\* and whatever DNS and WHOIS inputs are supplied.
C3_ExactMatchOthersZero ==
    (pc = "called" /\ SomeExactFqdnLink) =>
        /\ ret.domain_match = 0
        /\ ret.website_is_subdomain_of_email_domain = 0
        /\ ret.email_is_subdomain_of_website_domain = 0
        /\ ret.subdomain_mismatch = 0
        /\ ret.domain_of_email_in_website_subdomain = 0
        /\ ret.domain_of_website_in_email_subdomain = 0
        /\ ret.crossref_bonus = 0
        /\ ret.dns_verification_bonus = 0
        /\ ret.dns_similarity_bonus = 0
        /\ ret.whois_bonus = 0

\* C4: every component of a returned breakdown lies in its documented set,
\* for WHOIS match scores in 0..99 and DNS relation scores in 0..100.
C4_ComponentsInRange ==
    /\ \A m \in 0..99 : whois_bonus([match_score |-> m]) \in 0..20
    /\ pc = "called" =>
        /\ ret.fully_qualified_domain_name_match \in {0, 100}
        /\ ret.domain_match \in {0, 80}
        /\ ret.email_is_subdomain_of_website_domain \in {0, 10}
        /\ ret.website_is_subdomain_of_email_domain \in {0, -10}
        /\ ret.subdomain_mismatch \in {0, -10}
        /\ ret.domain_of_email_in_website_subdomain \in {0, 20}
        /\ ret.domain_of_website_in_email_subdomain \in {0, 20}
        /\ ret.crossref_bonus \in {0, 5}
        /\ ret.dns_verification_bonus \in {0, 5, 10}
        /\ ret.dns_similarity_bonus \in 0..15
        /\ ret.whois_bonus \in 0..20

\* a call that sets a negative component, both DNS bonuses and the largest
\* WHOIS bonus a score below 100 gives
C4_Witness ==
    /\ pc = "called"
    /\ ret.website_is_subdomain_of_email_domain = -10
    /\ ret.dns_verification_bonus = 10
    /\ ret.dns_similarity_bonus = 14
    /\ ret.whois_bonus = 19
    /\ ret.crossref_bonus = 5


--------------------------------------------------------------------------
(* Properties of find_org_associated_with_email (checked under Spec).      *)

\* after is before rearranged by a permutation p of its indices, totals
\* descending, entries of equal total in the order they had in before
IsRanking(before, after) ==
    /\ Len(after) = Len(before)
    /\ \E p \in Orders(1..Len(before)) :
          /\ \A i \in 1..Len(after) : after[i] = before[p[i]]
          /\ \A i, j \in 1..Len(after) :
                i < j => /\ after[i][2].total >= after[j][2].total
                         /\ after[i][2].total = after[j][2].total => p[i] < p[j]

\* C5: the ranked list is a permutation of the scored candidates, ordered by
\* total descending; candidates of equal total keep the order in which the
\* registry lookup returned them.
C5_RankedStableDescending ==
    [][(pc = "score" /\ pc' = "print") =>
          /\ \A i \in 1..Len(scored_results) : scored_results[i][1] = results[i]
          /\ IsRanking(scored_results, scored_results')]_vars

\* a ranked list of three organisations: two of equal total in front, the
\* one the registry returned first moved to the end
C5_Witness ==
    /\ pc = "print"
    /\ Len(scored_results) = 3
    /\ scored_results[1][2].total = scored_results[2][2].total
    /\ scored_results[2][2].total > scored_results[3][2].total
    /\ scored_results[1][1].id # scored_results[2][1].id
    /\ scored_results[3][1] = results[1]

\* C6: each distinct candidate organisation is scored at most once and stands
\* at most once in the ranked list, also when several of the generated
\* queries return it.
C6_CandidateScoredOnce ==
    \A i, j \in 1..Len(scored_results) :
        scored_results[i][1].id = scored_results[j][1].id => i = j

\* C7: a failing external service (here the WHOIS lookup: it raises, or it
\* has no domain to query) does not make find_org_associated_with_email
\* terminate with an exception.
C7_ServiceFailureNotFatal ==
    ~(pc = "raised" /\ exc \in {"WhoisError", "TypeError"})

\* the decomposition of the email's domain
EmailParts == Extract(get_domain_from_email(email))

\* the variant a query asks for: what follows "links.value:"
VariantOf(q) == From(q, Find(q, "links.value:") + Len("links.value:") - 1)

QueryVariants == [i \in 1..Len(queries) |-> VariantOf(queries[i])]

\* generate_ror_queries has returned and no query has been sent yet (no
\* later step changes queries)
Generated == pc = "fetch" /\ qi = 0

\* C8: generate_ror_queries returns one query per distinct domain variant, no
\* variant twice (also when labels of the domain repeat), and the dot count
\* of the variants never decreases along the sequence.
C8_QueriesDistinctAscending ==
    Generated =>
        LET variants == QueryVariants
        IN  /\ Range(variants) = DomainVariants(Parts(EmailParts))
            /\ \A i, j \in 1..Len(variants) :
                  /\ variants[i] = variants[j] => i = j
                  /\ i < j => Count(variants[i], ".") <= Count(variants[j], ".")

\* the queries of a domain whose two labels are the same word
C8_Witness ==
    /\ pc = "fetch"
    /\ email = "a@example.example.com"
    /\ QueryVariants = <<"example", "example.example">>

Precedes(v, w) ==
    \E i, j \in 1..Len(queries) : i < j /\ QueryVariants[i] = v /\ QueryVariants[j] = w

\* C9 as stated: for a@mail.dept.example.ac.uk the variants are exactly
\* example, dept, mail, dept.example and mail.dept.example, and the query for
\* example precedes the query for dept.example.
C9_FiveVariants ==
    (Generated /\ email = "a@mail.dept.example.ac.uk") =>
        /\ Range(QueryVariants) =
              {"example", "dept", "mail", "dept.example", "mail.dept.example"}
        /\ Precedes("example", "dept.example")

\* C9: for a@mail.dept.example.ac.uk the variants are exactly example, dept,
\* mail, dept.example, mail.dept and mail.dept.example, and the query for
\* example precedes the query for dept.example.
C9_SixVariants ==
    (Generated /\ email = "a@mail.dept.example.ac.uk") =>
        /\ Range(QueryVariants) =
              {"example", "dept", "mail", "dept.example", "mail.dept", "mail.dept.example"}
        /\ Precedes("example", "dept.example")

\* the six queries of a@mail.dept.example.ac.uk, mail.dept among them
C9_Witness ==
    /\ Generated
    /\ email = "a@mail.dept.example.ac.uk"
    /\ Len(queries) = 6
    /\ "mail.dept" \in Range(QueryVariants)

EndsWith(s, p) == Len(p) <= Len(s) /\ From(s, Len(s) - Len(p)) = p

QueryHead == "https://api.ror.org/v2/organizations?query.advanced="

CountryKey == "locations.geonames_details.country_code:"

LinksClause == "links.type:website%20AND%20links.value:"

\* q is the generic template applied to variant v
IsGenericQuery(q, v) == q = QueryHead \o LinksClause \o v

\* q is the generic template applied to v with one country filter clause put
\* in front of the links clause
IsCountryQuery(q, v) ==
    /\ StartsWith(q, QueryHead \o CountryKey)
    /\ EndsWith(q, "%20AND%20" \o LinksClause \o v)
    /\ Cardinality({i \in 1..Len(q) : StartsWithAt(q, "%20AND%20", i)}) = 2

\* C10: every query of an email is built from the country-scoped template
\* exactly when the last dot-segment of the public suffix is in the country
\* code table, and from the generic template otherwise; the two templates
\* differ in the country filter clause alone.
C10_TemplateByLastSegment ==
    Generated =>
        \A i \in 1..Len(queries) :
            IF Last(Split(EmailParts.suffix, ".")) \in tlds
            THEN IsCountryQuery(queries[i], QueryVariants[i])
            ELSE IsGenericQuery(queries[i], QueryVariants[i])

\* country-scoped queries of a domain under a two-segment public suffix
C10_Witness ==
    /\ Generated
    /\ EmailParts.suffix = "ac.uk"
    /\ \A i \in 1..Len(queries) : IsCountryQuery(queries[i], QueryVariants[i])

\* the country-scoped query for variant v whose filter names code
CountryQueryFor(code, v) ==
    QueryHead \o CountryKey \o code \o "%20AND%20" \o LinksClause \o v

\* C11: when the country-scoped template is used, the country filter of every
\* query names the two-letter code that is the last dot-segment of the public
\* suffix (in either case), also for a suffix of several labels: uk for ac.uk.
C11_CountryFilterIsLastSegment ==
    (Generated /\ Last(Split(EmailParts.suffix, ".")) \in tlds) =>
        LET code == Last(Split(EmailParts.suffix, "."))
        IN  \A i \in 1..Len(queries) :
               queries[i] \in {CountryQueryFor(code, QueryVariants[i]),
                               CountryQueryFor(Upper(code), QueryVariants[i])}

--------------------------------------------------------------------------
(* A direct call of DNSAnalyzer.compare_dns_results on the record sets of  *)
(* two domains, as run_dns_analysis gathers them.                          *)

MaxNs == 3

NsNames ==
    <<"ns1.example.net", "ns2.example.net", "ns3.example.net", "ns4.example.net",
      "ns5.example.net">>

NsPool == {NsNames[i] : i \in 1..MaxNs}

\* a list holding the elements of S once
ListOf(S) == CHOOSE f \in Orders(S) : TRUE

\* the record sets a resolver can answer for a domain
DnsRecordSets(domain) ==
    {[domain       |-> domain,
      mx_records   |-> mx,
      ns_records   |-> ListOf(ns),
      a_records    |-> a,
      aaaa_records |-> aaaa,
      cname_record |-> None,
      soa_email    |-> soa,
      txt_records  |-> txt,
      spf_record   |-> find_spf(txt)] :
        mx \in {<<>>, <<"mx.example.net">>},
        ns \in SUBSET NsPool,
        a \in {<<>>, <<"192.0.2.1">>, <<"192.0.2.9">>},
        aaaa \in {<<>>, <<"2001:db8::1">>},
        soa \in {None, "hostmaster.example.net", "root.other.org"},
        txt \in {<<>>, <<<<"v=spf1 include:spf.example.net -all">>>>, <<<<"v=spf1 -all">>>>}}

\* the email domain answers in full or not at all
EmailRecordSets ==
    {r \in DnsRecordSets("example.net") :
        \/ /\ Range(r.ns_records) = NsPool
           /\ r.mx_records # <<>> /\ r.a_records = <<"192.0.2.1">> /\ r.aaaa_records # <<>>
           /\ r.soa_email = "hostmaster.example.net"
           /\ r.spf_record = "v=spf1 include:spf.example.net -all"
        \/ /\ r.ns_records = <<>> /\ r.mx_records = <<>> /\ r.a_records = <<>>
           /\ r.aaaa_records = <<>> /\ r.soa_email = None /\ r.txt_records = <<>>}

InitDns ==
    /\ pc = "compare"
    /\ email = ""
    /\ dnsWorld = "shared"
    /\ whoisWorld = "redacted"
    /\ initial_dns = NoDict
    /\ queries = <<>>
    /\ qi = 0
    /\ results = <<>>
    /\ scored_results = <<>>
    /\ exc = ""
    /\ ret = NoDict
    /\ \E e \in EmailRecordSets :
          \/ arg = [email_domain |-> e]
          \/ \E w \in DnsRecordSets("other.org") :
                arg = [email_domain |-> e, website_domain |-> w]

CallCompare ==
    /\ pc = "compare"
    /\ ret' = compare_dns_results(arg)
    /\ pc' = "compared"
    /\ UNCHANGED <<email, dnsWorld, whoisWorld, initial_dns, queries, qi, results,
                   scored_results, exc, arg>>

NextDns == CallCompare

SpecDns == InitDns /\ [][NextDns]_vars

\* the records of one kind the two domains of the call share
Shared(kind) == Range(arg.email_domain[kind]) \cap Range(arg.website_domain[kind])

Compared == pc = "compared" /\ IsDict(ret)

\* C12: relation_score is min(100, 25*min(|shared NS|, 2) + 30 for a shared A
\* record + 15 for a shared AAAA record + 20 for a shared MX record + 10 for
\* soa_email_relation + 10 for spf_similarity); it lies in 0..100, and it is
\* 80 for two domains sharing 2 nameservers, 1 A record and nothing else.
C12_RelationScore ==
    Compared =>
        /\ ret.relation_score =
              Min(100,
                  25 * Min(Cardinality(Shared("ns_records")), 2)
                  + (IF Shared("a_records") # {} THEN 30 ELSE 0)
                  + (IF Shared("aaaa_records") # {} THEN 15 ELSE 0)
                  + (IF Shared("mx_records") # {} THEN 20 ELSE 0)
                  + (IF ret.soa_email_relation THEN 10 ELSE 0)
                  + (IF ret.spf_similarity THEN 10 ELSE 0))
        /\ ret.relation_score \in 0..100
        /\ (/\ Cardinality(Shared("ns_records")) = 2
            /\ Cardinality(Shared("a_records")) = 1
            /\ Shared("aaaa_records") = {} /\ Shared("mx_records") = {}
            /\ ~ret.soa_email_relation /\ ~ret.spf_similarity)
           => ret.relation_score = 80

\* two domains sharing 2 nameservers and 1 A record and nothing else
C12_Witness ==
    /\ Compared
    /\ Cardinality(Shared("ns_records")) = 2
    /\ Cardinality(Shared("a_records")) = 1
    /\ Shared("aaaa_records") = {} /\ Shared("mx_records") = {}
    /\ ~ret.soa_email_relation /\ ~ret.spf_similarity
    /\ ret.relation_score = 80

--------------------------------------------------------------------------
(* WHOISClient.compare_domains on the fields of two lookups that answered. *)

\* the address part of a WHOIS record
WhoisAddresses ==
    {[address |-> None, city |-> None, state |-> None, country |-> None],
     [address |-> "1 Main St", city |-> "Springfield", state |-> "IL", country |-> "US"],
     [address |-> "1 Main St", city |-> "Shelbyville", state |-> "IL", country |-> "US"],
     [address |-> None, city |-> "Springfield", state |-> "IL", country |-> "US"]}

\* the fields query_domain can return for a domain
WhoisRecords ==
    {[domain_name |-> dn, org |-> org, name |-> name, emails |-> emails,
      address |-> ad.address, city |-> ad.city, state |-> ad.state,
      country |-> ad.country] :
        dn \in {None, "EXAMPLE.COM", "EXAMPLE.ORG"},
        org \in {None, "Example University", "Mail Inc"},
        name \in {None, "Mail Admin"},
        emails \in {<<>>, <<<<>>>>, <<<<"hostmaster@example.com">>>>,
                    <<<<"abuse@example.com", "hostmaster@example.com">>>>},
        ad \in WhoisAddresses}

InitWhois ==
    /\ pc = "compare_whois"
    /\ email = ""
    /\ dnsWorld = "shared"
    /\ whoisWorld = "registrar"
    /\ initial_dns = NoDict
    /\ queries = <<>>
    /\ qi = 0
    /\ results = <<>>
    /\ scored_results = <<>>
    /\ exc = ""
    /\ ret = NoDict
    /\ \E r1 \in {NoWhois, ExampleComWhois, RegistrarRecord("example.mail.org")},
          r2 \in WhoisRecords :
          arg = [domain1_results |-> r1, domain2_results |-> r2]

CallCompareWhois ==
    /\ pc = "compare_whois"
    /\ ret' = compare_records(arg.domain1_results, arg.domain2_results)
    /\ pc' = "whois_compared"
    /\ UNCHANGED <<email, dnsWorld, whoisWorld, initial_dns, queries, qi, results,
                   scored_results, exc, arg>>

NextWhois == CallCompareWhois

SpecWhois == InitWhois /\ [][NextWhois]_vars

\* the two lookups of the call give the same value for field f, not None
Agree(f) ==
    /\ arg.domain1_results[f] = arg.domain2_results[f]
    /\ arg.domain1_results[f] # None

AgreeOnAddress == Agree("address") /\ Agree("city") /\ Agree("state") /\ Agree("country")

BothEmailsPresent == arg.domain1_results.emails # <<>> /\ arg.domain2_results.emails # <<>>

ShareAnEmail ==
    /\ BothEmailsPresent
    /\ Range(arg.domain1_results.emails[1]) \cap Range(arg.domain2_results.emails[1]) # {}

\* C13: match_score is (100 for an equal domain_name + 100 for an equal org +
\* 100 for an equal name + 50 for address, city, state and country all equal
\* + 80 for two email sequences that are not null) mod 100, each equality
\* between values that are present; it lies in 0..99, and it is 80 for two
\* domains agreeing on org alone and sharing an email.
C13_MatchScoreMod100 ==
    pc = "whois_compared" =>
        /\ ret[1] = ((IF Agree("domain_name") THEN 100 ELSE 0)
                     + (IF Agree("org") THEN 100 ELSE 0)
                     + (IF Agree("name") THEN 100 ELSE 0)
                     + (IF AgreeOnAddress THEN 50 ELSE 0)
                     + (IF BothEmailsPresent THEN 80 ELSE 0)) % 100
        /\ ret[1] \in 0..99
        /\ (Agree("org") /\ ShareAnEmail /\ ~Agree("domain_name") /\ ~Agree("name")
               /\ ~AgreeOnAddress)
           => ret[1] = 80

\* two domains agreeing on org alone and sharing an email
C13_Witness ==
    /\ pc = "whois_compared"
    /\ Agree("org") /\ ShareAnEmail
    /\ ~Agree("domain_name") /\ ~Agree("name") /\ ~AgreeOnAddress
    /\ ret[1] = 80
    /\ "emails" \in DOMAIN ret[2]

--------------------------------------------------------------------------
(* Further properties of find_org_associated_with_email (under Spec).      *)

\* C14: a candidate with an empty link list is scored with the email-only DNS
\* results and no WHOIS result, its breakdown has every component and total
\* at 0, and the scoring loop raises nothing at such a candidate.
C14_NoLinksAllZero ==
    /\ \A i \in 1..Len(scored_results) :
          Len(scored_results[i][1].links) = 0 =>
              /\ scored_results[i][2] = ZeroBreakdown
              /\ scored_results[i][3] = initial_dns
              /\ scored_results[i][4] = NoDict
    /\ (pc = "raised" /\ exc \in {"TypeError", "WhoisError"}) =>
          Len(results[Len(scored_results) + 1].links) > 0

\* a scored candidate without links that carries a fundref id, the email
\* domain resolving
C14_Witness ==
    /\ pc = "print"
    /\ dnsWorld = "shared"
    /\ email = "a@example.com"
    /\ \E i \in 1..Len(scored_results) :
          /\ scored_results[i][1].links = <<>>
          /\ Fundref \in Range(scored_results[i][1].external_ids)
          /\ scored_results[i][3].email_domain.a_records # <<>>
          /\ scored_results[i][2].total = 0

--------------------------------------------------------------------------
(* Further properties of the score breakdown (under SpecScore).            *)

\* every rearrangement of a list
Rearrangements(seq) ==
    {[i \in 1..Len(seq) |-> seq[p[i]]] : p \in Orders(1..Len(seq))}

\* the links of the calls that compare link orders
OrderLinks ==
    {"https://www.example.com", "http://dept.example.com/", "https://example.org",
     "https://mail.example.com", "https://example.mail.org"}

\* calls of calculate_match_score with the link list varied most
InitLinks ==
    /\ pc = "call"
    /\ email = ""
    /\ dnsWorld = "shared"
    /\ whoisWorld = "redacted"
    /\ initial_dns = NoDict
    /\ queries = <<>>
    /\ qi = 0
    /\ results = <<>>
    /\ scored_results = <<>>
    /\ exc = ""
    /\ ret = NoDict
    /\ \E e \in ScoreEmails, links \in BoundedSeqs(OrderLinks, MaxLinks),
          ids \in {<<>>, <<Grid, Fundref>>} :
          \E d \in {NoDict, run_dns_analysis("shared", get_domain_from_email(e), None)}
                   \cup {run_dns_analysis("shared", get_domain_from_email(e),
                                          get_domain_from_url(links[i])) : i \in {1} \cap DOMAIN links} :
             arg = [email |-> e,
                    result |-> [links |-> links, external_ids |-> ids],
                    dns_results |-> d,
                    whois_results |-> NoDict]

SpecLinks == InitLinks /\ [][NextScore]_vars

\* the breakdown of the call with the candidate's links replaced by links
ScoreWithLinks(links) ==
    calculate_match_score(dnsWorld, arg.email, [arg.result EXCEPT !.links = links],
                          arg.dns_results, arg.whois_results)

PositiveComponents ==
    {"fully_qualified_domain_name_match", "domain_match",
     "email_is_subdomain_of_website_domain", "domain_of_email_in_website_subdomain",
     "domain_of_website_in_email_subdomain", "crossref_bonus",
     "dns_verification_bonus", "dns_similarity_bonus", "whois_bonus"}

NegativeComponents == {"website_is_subdomain_of_email_domain", "subdomain_mismatch"}

\* C15: for a candidate with no exact FQDN link the breakdown is the same for
\* every permutation of its links, and one more link that is no exact FQDN
\* match lowers no positive component and raises no negative one.
C15_LinkOrderIrrelevant ==
    (pc = "called" /\ ~SomeExactFqdnLink) =>
        /\ \A links \in Rearrangements(arg.result.links) : ScoreWithLinks(links) = ret
        /\ \A link \in OrderLinks :
              ~ExactFqdnLink(arg.email, link) =>
                 LET more == ScoreWithLinks(Append(arg.result.links, link))
                 IN  /\ \A c \in PositiveComponents : more[c] >= ret[c]
                     /\ \A c \in NegativeComponents : more[c] <= ret[c]

\* two different links, neither an exact match, that set different components
C15_Witness ==
    /\ pc = "called"
    /\ ~SomeExactFqdnLink
    /\ Len(arg.result.links) = 2
    /\ ret.email_is_subdomain_of_website_domain = 10
    /\ ret.subdomain_mismatch = -10

--------------------------------------------------------------------------
(* The bonuses drawn from the WHOIS and DNS comparisons.                   *)

\* the sum compare_domains adds up for the two lookups of the call
RawWhoisSum ==
    (IF Agree("domain_name") THEN 100 ELSE 0)
    + (IF Agree("org") THEN 100 ELSE 0)
    + (IF Agree("name") THEN 100 ELSE 0)
    + (IF AgreeOnAddress THEN 50 ELSE 0)
    + (IF BothEmailsPresent THEN 80 ELSE 0)

\* the whois_bonus the scorer draws from the pair compare_domains returned
BonusOfComparison == whois_bonus(WhoisResultsFor(ret))

\* C16 (WHOIS half): whois_bonus is min(20, matchScore // 5), and it is 20 when
\* the underlying raw WHOIS score reaches 100.
C16_WhoisBonusAtFullScore ==
    pc = "whois_compared" =>
        /\ BonusOfComparison = Min(20, ret[1] \div 5)
        /\ RawWhoisSum >= 100 => BonusOfComparison = 20

\* a comparison whose raw sum is exactly 100, reported as 0
C16_Witness ==
    /\ pc = "whois_compared"
    /\ RawWhoisSum = 100
    /\ BonusOfComparison = 0

--------------------------------------------------------------------------
(* A direct call of DNSAnalyzer.get_domain_from_url.                       *)

UrlSchemes == {"", "http://", "https://"}

UrlHosts ==
    {h : h \in {"example.com", "dept.example.com", "wikipedia.org", "w3.org",
                "web.example.com", "example.ac.uk"}}
    \cup {"www." \o h : h \in {"example.com", "dept.example.com", "wikipedia.org",
                               "w3.org", "web.example.com", "example.ac.uk"}}

UrlPaths == {"", "/", "/about", "/en/index.html"}

\* arg.url is the argument; arg.host records the host it was written with
InitUrl ==
    /\ pc = "call_url"
    /\ email = ""
    /\ dnsWorld = "shared"
    /\ whoisWorld = "redacted"
    /\ initial_dns = NoDict
    /\ queries = <<>>
    /\ qi = 0
    /\ results = <<>>
    /\ scored_results = <<>>
    /\ exc = ""
    /\ ret = NoDict
    /\ \E scheme \in UrlSchemes, host \in UrlHosts, path \in UrlPaths :
          arg = [url |-> scheme \o host \o path, host |-> host]

CallUrl ==
    /\ pc = "call_url"
    /\ ret' = get_domain_from_url(arg.url)
    /\ pc' = "url_called"
    /\ UNCHANGED <<email, dnsWorld, whoisWorld, initial_dns, queries, qi, results,
                   scored_results, exc, arg>>

NextUrl == CallUrl

SpecUrl == InitUrl /\ [][NextUrl]_vars

\* C17: for a URL or bare domain whose host begins with "www.", with or
\* without a scheme, get_domain_from_url returns the host with exactly that
\* leading "www." removed and the rest of the host unchanged.
C17_StripsLeadingWww ==
    (pc = "url_called" /\ StartsWith(arg.host, "www.")) => ret = From(arg.host, 4)

\* a host whose label after www. starts with w loses more than the prefix
C17_Witness ==
    /\ pc = "url_called"
    /\ arg.host = "www.wikipedia.org"
    /\ ret = "ikipedia.org"

--------------------------------------------------------------------------
(* Completion of find_org_associated_with_email (under Spec).              *)

\* C18: with at least one candidate, find_org_associated_with_email scores,
\* sorts and prints, and returns a dict whose ror_scored_results holds one
\* entry per candidate; printing the results never raises.
C18_PrintsAndReturns ==
    /\ ~(pc = "raised" /\ exc = "ValueError")
    /\ (pc = "returned" /\ Len(results) > 0) =>
          Len(ret.ror_scored_results) = Len(results)

\* every candidate scored and sorted, then the printing loop raising
C18_Witness ==
    /\ pc = "raised"
    /\ exc = "ValueError"
    /\ Len(scored_results) = Len(results)
    /\ Len(results) > 0
    /\ ret = NoDict

--------------------------------------------------------------------------
(* The per-link components (under SpecScore).                              *)

CallEmailParts == Extract(get_domain_from_email(arg.email))

\* the labels of a subdomain
Labels(subdomain) == IF subdomain = "" THEN {} ELSE Range(Split(subdomain, "."))

CallLinks == {Extract(arg.result.links[i]) : i \in 1..Len(arg.result.links)}

\* C19: (no link being an exact FQDN match) if the email's registrable label
\* differs from a link's and is one of that link's subdomain labels,
\* domain_of_email_in_website_subdomain is 20; if a link's registrable label
\* differs from the email's and is one of the email's subdomain labels,
\* domain_of_website_in_email_subdomain is 20; whether or not the other side
\* has a subdomain.
C19_CrossSubdomainComponents ==
    (pc = "called" /\ ~SomeExactFqdnLink) =>
        \A link \in CallLinks :
            link.domain # CallEmailParts.domain =>
                /\ CallEmailParts.domain \in Labels(link.subdomain) =>
                      ret.domain_of_email_in_website_subdomain = 20
                /\ link.domain \in Labels(CallEmailParts.subdomain) =>
                      ret.domain_of_website_in_email_subdomain = 20

\* the email's label among the link's subdomain labels, the email without a
\* subdomain of its own, and no points given
C19_Witness ==
    /\ pc = "called"
    /\ arg.email = "a@example.com"
    /\ arg.result.links = <<"https://example.mail.org">>
    /\ ret.domain_of_email_in_website_subdomain = 0

\* link has the email's registrable label
SameDomain(link) == link.domain = CallEmailParts.domain

\* link has a subdomain other than www
OwnSubdomain(link) == link.subdomain # "" /\ link.subdomain # "www"

EmailHasSubdomain == CallEmailParts.subdomain # ""

\* C20: when no link is an exact FQDN match, subdomain_mismatch is -10 iff
\* some link has the email's registrable domain and a subdomain other than
\* www while the email has a subdomain; email_is_subdomain_of_website_domain
\* is 10 iff some link has the email's registrable domain and no subdomain or
\* only www while the email has a subdomain; website_is_subdomain_of_email_domain
\* is -10 iff some link has the email's registrable domain and a subdomain
\* other than www while the email has none; the three are 0 while
\* domain_match is 0.
C20_SubdomainAdjustments ==
    (pc = "called" /\ ~SomeExactFqdnLink) =>
        /\ ret.subdomain_mismatch = -10 <=>
              \E link \in CallLinks :
                  SameDomain(link) /\ OwnSubdomain(link) /\ EmailHasSubdomain
        /\ ret.email_is_subdomain_of_website_domain = 10 <=>
              \E link \in CallLinks :
                  SameDomain(link) /\ ~OwnSubdomain(link) /\ EmailHasSubdomain
        /\ ret.website_is_subdomain_of_email_domain = -10 <=>
              \E link \in CallLinks :
                  SameDomain(link) /\ OwnSubdomain(link) /\ ~EmailHasSubdomain
        /\ ret.domain_match = 0 =>
              /\ ret.subdomain_mismatch = 0
              /\ ret.email_is_subdomain_of_website_domain = 0
              /\ ret.website_is_subdomain_of_email_domain = 0

\* an email with a subdomain, one link with www alone and one with a
\* subdomain of its own
C20_Witness ==
    /\ pc = "called"
    /\ ~SomeExactFqdnLink
    /\ ret.domain_match = 80
    /\ ret.subdomain_mismatch = -10
    /\ ret.email_is_subdomain_of_website_domain = 10
    /\ \E link \in CallLinks : SameDomain(link) /\ link.subdomain = "www"

HasFundref ==
    \E i \in 1..Len(arg.result.external_ids) : arg.result.external_ids[i].type = "fundref"

\* C21: when no link is an exact FQDN match, crossref_bonus is 5 exactly when
\* domain_match is 80 and the external identifiers hold a fundref entry, and
\* 0 otherwise; a candidate without external identifiers is scored (the
\* scorer returns a breakdown, crossref_bonus 0).
C21_CrossrefBonus ==
    (pc = "called" /\ ~SomeExactFqdnLink) =>
        /\ ret.crossref_bonus = (IF ret.domain_match = 80 /\ HasFundref THEN 5 ELSE 0)
        /\ arg.result.external_ids = <<>> =>
              ret.crossref_bonus = 0 /\ ret.total = SumComponents(ret)

\* a domain match on a candidate that carries a fundref id next to another id
C21_Witness ==
    /\ pc = "called"
    /\ ~SomeExactFqdnLink
    /\ arg.result.external_ids = <<Grid, Fundref>>
    /\ ret.domain_match = 80
    /\ ret.crossref_bonus = 5

--------------------------------------------------------------------------
(* The DNS verification loop of calculate_match_score (lines 91-113), one  *)
(* link per step.  arg holds dns_results and the links; ret holds the      *)
(* bonus so far and the number of links examined.                          *)

InitVerify ==
    /\ pc = "verify"
    /\ email = ""
    /\ dnsWorld \in DnsWorlds
    /\ whoisWorld = "redacted"
    /\ initial_dns = NoDict
    /\ queries = <<>>
    /\ qi = 0
    /\ results = <<>>
    /\ scored_results = <<>>
    /\ exc = ""
    /\ ret = [bonus |-> 0, examined |-> 0]
    /\ \E e \in ScoreEmails, links \in BoundedSeqs(ScoreLinks, MaxLinks) :
          \E d \in DnsInputs(e, links) \ {NoDict} :
             arg = [dns_results |-> d, links |-> links]

\* lines 94-113 for the next link
ExamineLink ==
    /\ pc = "verify"
    /\ ret.examined < Len(arg.links)
    /\ LET link == arg.links[ret.examined + 1]
       IN  IF AHit(dnsWorld, arg.dns_results, link)
           THEN /\ ret' = [bonus |-> 10, examined |-> ret.examined + 1]
                /\ pc' = "verified"
           ELSE /\ ret' = [bonus |-> IF SoaHit(arg.dns_results, link)
                                     THEN Max(ret.bonus, 5) ELSE ret.bonus,
                           examined |-> ret.examined + 1]
                /\ pc' = pc
    /\ UNCHANGED <<email, dnsWorld, whoisWorld, initial_dns, queries, qi, results,
                   scored_results, exc, arg>>

\* the loop runs out of links
LeaveLoop ==
    /\ pc = "verify"
    /\ ret.examined = Len(arg.links)
    /\ pc' = "verified"
    /\ UNCHANGED <<email, dnsWorld, whoisWorld, initial_dns, queries, qi, results,
                   scored_results, exc, arg, ret>>

NextVerify == ExamineLink \/ LeaveLoop

SpecVerify == InitVerify /\ [][NextVerify]_vars

\* the links whose live A records overlap those of the email domain
AHits ==
    {i \in 1..Len(arg.links) :
        Range(get_a_records(dnsWorld, get_domain_from_url(arg.links[i])))
        \cap Range(arg.dns_results.email_domain.a_records) # {}}

\* the domain of an SOA address: what follows its first "."
SoaDomain(soa) == IF Find(soa, ".") = 0 THEN soa ELSE From(soa, Find(soa, "."))

\* the links the domain of the email domain's SOA address matches
SoaMatches ==
    LET soa == arg.dns_results.email_domain.soa_email
    IN  {i \in 1..Len(arg.links) :
            /\ soa # None /\ soa # "" /\ SoaDomain(soa) # ""
            /\ \/ Contains(arg.links[i], SoaDomain(soa))
               \/ Contains(SoaDomain(soa), get_domain_from_url(arg.links[i]))}

\* C22: given DNS results for the email domain, dns_verification_bonus is 10
\* iff some link's A records overlap the email domain's; otherwise 5 iff the
\* domain of the email domain's SOA address matches a link; otherwise 0.  The
\* links are examined in order and none after the first A-record hit.
C22_VerificationBonus ==
    /\ pc \in {"verify", "verified"} =>
          \A i \in AHits : ret.examined <= i
    /\ pc = "verified" =>
          /\ ret.bonus = (IF AHits # {} THEN 10 ELSE IF SoaMatches # {} THEN 5 ELSE 0)
          /\ ret.bonus = dns_verification_bonus(dnsWorld, arg.dns_results, arg.links)
          /\ ret.examined = (IF AHits = {} THEN Len(arg.links)
                             ELSE CHOOSE i \in AHits : \A j \in AHits : i <= j)

\* an A-record hit on the first of two links: the second is never looked at
C22_Witness ==
    /\ pc = "verified"
    /\ Len(arg.links) = 2
    /\ 1 \in AHits
    /\ ret = [bonus |-> 10, examined |-> 1]

--------------------------------------------------------------------------
(* run_dns_analysis followed by compare_dns_results and the similarity     *)
(* bonus of the scorer, called on a pair of domains.                       *)

AnalysisDomains ==
    {"example.com", "mail.example.com", "dept.example.com", "example.org",
     "example.mail.org", "nowhere.test"}

InitAnalysis ==
    /\ pc = "analyse"
    /\ email = ""
    /\ dnsWorld \in DnsWorlds
    /\ whoisWorld = "redacted"
    /\ initial_dns = NoDict
    /\ queries = <<>>
    /\ qi = 0
    /\ results = <<>>
    /\ scored_results = <<>>
    /\ exc = ""
    /\ ret = NoDict
    /\ \E ed \in AnalysisDomains, wd \in AnalysisDomains \cup {None, ""} :
          arg = [email_domain |-> ed, website_domain |-> wd]

RunAnalysis ==
    /\ pc = "analyse"
    /\ ret' = run_dns_analysis(dnsWorld, arg.email_domain, arg.website_domain)
    /\ pc' = "analysed"
    /\ UNCHANGED <<email, dnsWorld, whoisWorld, initial_dns, queries, qi, results,
                   scored_results, exc, arg>>

CompareAnalysis ==
    /\ pc = "analysed"
    /\ ret' = [dns_results          |-> ret,
               comparison           |-> compare_dns_results(ret),
               dns_similarity_bonus |-> dns_similarity_bonus(ret)]
    /\ pc' = "similarity"
    /\ UNCHANGED <<email, dnsWorld, whoisWorld, initial_dns, queries, qi, results,
                   scored_results, exc, arg>>

NextAnalysis == RunAnalysis \/ CompareAnalysis

SpecAnalysis == InitAnalysis /\ [][NextAnalysis]_vars

WebsiteAbsentOrSame ==
    arg.website_domain \in {None, "", arg.email_domain}

\* C23: run_dns_analysis followed by compare_dns_results yields no comparison
\* exactly when the website domain is absent or equal to the email domain, and
\* then dns_similarity_bonus is 0; when the two domains differ a comparison
\* with a relation score is produced.
C23_ComparisonIffDomainsDiffer ==
    pc = "similarity" =>
        /\ ret.comparison = NoDict <=> WebsiteAbsentOrSame
        /\ WebsiteAbsentOrSame => ret.dns_similarity_bonus = 0
        /\ ~WebsiteAbsentOrSame =>
              /\ IsDict(ret.comparison)
              /\ "relation_score" \in DOMAIN ret.comparison
              /\ ret.comparison.relation_score \in 0..100

\* the website is the email's own domain, which has records: no comparison
C23_Witness ==
    /\ pc = "similarity"
    /\ dnsWorld = "shared"
    /\ arg.website_domain = arg.email_domain
    /\ arg.email_domain = "example.com"
    /\ ret.comparison = NoDict
    /\ ret.dns_similarity_bonus = 0

--------------------------------------------------------------------------
(* compare_dns_results on two domains that answer with an SOA record only. *)

SoaAddresses ==
    {None, "", "root", "hostmaster.example.net", "admin.example.net",
     "root.other.org", "dns.mail.example.net"}

SoaOnly(domain, soa) ==
    [domain       |-> domain,
     mx_records   |-> <<>>,
     ns_records   |-> <<>>,
     a_records    |-> <<>>,
     aaaa_records |-> <<>>,
     cname_record |-> None,
     soa_email    |-> soa,
     txt_records  |-> <<>>,
     spf_record   |-> None]

InitSoa ==
    /\ pc = "compare"
    /\ email = ""
    /\ dnsWorld = "shared"
    /\ whoisWorld = "redacted"
    /\ initial_dns = NoDict
    /\ queries = <<>>
    /\ qi = 0
    /\ results = <<>>
    /\ scored_results = <<>>
    /\ exc = ""
    /\ ret = NoDict
    /\ \E ed \in {"example.net", "mail.example.net"}, wd \in {"other.org", "example.net"},
          es \in SoaAddresses, ws \in SoaAddresses :
          /\ ed # wd
          /\ arg = [email_domain |-> SoaOnly(ed, es), website_domain |-> SoaOnly(wd, ws)]

SpecSoa == InitSoa /\ [][NextDns]_vars

\* an SOA address was returned and is not empty
SoaPresent(soa) == soa # None /\ soa # ""

\* C24: soa_email_relation is true iff both SOA addresses are present and they
\* are identical, or their domains (what follows the first ".") are equal, or
\* the email domain occurs in the website's SOA value, or the website domain
\* occurs in the email's SOA value; it is false when either is absent.
C24_SoaEmailRelation ==
    Compared =>
        LET es == arg.email_domain.soa_email
            ws == arg.website_domain.soa_email
        IN  /\ ret.soa_email_relation =
                  (/\ SoaPresent(es) /\ SoaPresent(ws)
                   /\ \/ es = ws
                      \/ SoaDomain(es) = SoaDomain(ws)
                      \/ Contains(ws, arg.email_domain.domain)
                      \/ Contains(es, arg.website_domain.domain))
            /\ (~SoaPresent(es) \/ ~SoaPresent(ws)) => ~ret.soa_email_relation

\* different SOA addresses in the same domain are related
C24_Witness ==
    /\ Compared
    /\ arg.email_domain.soa_email = "hostmaster.example.net"
    /\ arg.website_domain.soa_email = "admin.example.net"
    /\ arg.email_domain.domain = "mail.example.net"
    /\ ret.soa_email_relation

\* C25: compare_domains adds 80 to the raw score whenever both records have
\* an email sequence that is not null, shared email or not, and the "emails"
\* entry of the matched fields exists iff an email occurs in both sequences,
\* and then holds shared emails only.
C25_EmailsScoreAndEntry ==
    pc = "whois_compared" =>
        LET others == (IF Agree("domain_name") THEN 100 ELSE 0)
                      + (IF Agree("org") THEN 100 ELSE 0)
                      + (IF Agree("name") THEN 100 ELSE 0)
                      + (IF AgreeOnAddress THEN 50 ELSE 0)
        IN  /\ BothEmailsPresent => ret[1] = (others + 80) % 100
            /\ ~BothEmailsPresent => ret[1] = others % 100
            /\ "emails" \in DOMAIN ret[2] <=> ShareAnEmail
            /\ "emails" \in DOMAIN ret[2] =>
                  /\ ret[2].emails # <<>>
                  /\ Range(ret[2].emails) \subseteq
                        Range(arg.domain1_results.emails[1])
                        \cap Range(arg.domain2_results.emails[1])

\* two records with email lists and no email in common: 80 and no entry
C25_Witness ==
    /\ pc = "whois_compared"
    /\ arg.domain1_results.emails = <<<<"abuse@example.com", "hostmaster@example.com">>>>
    /\ arg.domain2_results.emails = <<<<>>>>
    /\ ~Agree("domain_name") /\ ~Agree("org") /\ ~Agree("name") /\ ~AgreeOnAddress
    /\ ret[1] = 80
    /\ "emails" \notin DOMAIN ret[2]

\* C26: for an email whose domain has no subdomain, generate_ror_queries
\* returns exactly one query, and its variant is the registrable-domain label.
C26_NoSubdomainOneQuery ==
    (Generated /\ EmailParts.subdomain = "") =>
        /\ Len(queries) = 1
        /\ VariantOf(queries[1]) = EmailParts.domain

\* a@example.com: the one query asks for "example"
C26_Witness ==
    /\ Generated
    /\ email = "a@example.com"
    /\ EmailParts.subdomain = ""
    /\ Len(queries) = 1
    /\ VariantOf(queries[1]) = "example"

\* C27: every breakdown calculate_match_score returns has total >= 0: the only
\* negative components are subdomain_mismatch and
\* website_is_subdomain_of_email_domain, and a breakdown in which one of them
\* is set has domain_match 80.
C27_TotalNotNegative ==
    pc = "called" =>
        /\ ret.total >= 0
        /\ \A c \in PositiveComponents : ret[c] >= 0
        /\ \A c \in NegativeComponents : ret[c] < 0 => ret.domain_match = 80
        /\ ret.subdomain_mismatch = 0 \/ ret.website_is_subdomain_of_email_domain = 0

\* a penalty of -10 next to the 80 of domain_match and nothing else
C27_Witness ==
    /\ pc = "called"
    /\ ret.website_is_subdomain_of_email_domain = -10
    /\ ret.domain_match = 80
    /\ ret.total = 70

\* C28: generate_ror_queries is deterministic: every call with the same email
\* returns the sequence of queries this call returned, in the same order,
\* variants with the same number of dots included.
C28_QueriesDeterministic ==
    Generated =>
        \A iter \in IterationOrders(email) : generate_ror_queries(email, iter) = queries

\* a@mail.example.com: this call asks for "mail" first; under another seed of
\* the string hashes the set yields "example" first and the call asks for it first
C28_Witness ==
    /\ Generated
    /\ email = "a@mail.example.com"
    /\ QueryVariants = <<"mail", "example", "mail.example">>
    /\ \E iter \in IterationOrders(email) :
          generate_ror_queries(email, iter) # queries

--------------------------------------------------------------------------
(* The scoring loop of find_org_associated_with_email (lines 95-114) on    *)
(* one candidate whose link list is varied.                                *)

CandidateEmails == ScoreEmails \cup {"a@"}

InitCandidate ==
    /\ pc = "score"
    /\ email \in CandidateEmails
    /\ dnsWorld \in DnsWorlds
    /\ whoisWorld \in WhoisWorlds
    /\ initial_dns = run_dns_analysis(dnsWorld, get_domain_from_email(email), None)
    /\ queries = <<>>
    /\ qi = 0
    /\ \E links \in BoundedSeqs(OrderLinks, MaxLinks) :
          results = <<[links |-> links, external_ids |-> <<Grid, Fundref>>]>>
    /\ scored_results = <<>>
    /\ exc = ""
    /\ arg = <<>>
    /\ ret = <<>>

SpecCandidate == InitCandidate /\ [][Score]_vars

\* the two bonuses find_org_associated_with_email obtains for a candidate
\* whose lookups answer
CandidateBonuses(result) ==
    LET pair == compare_domains(whoisWorld, get_domain_from_email(email),
                                get_domain_from_url(result.links[1]))
        b    == ScoredEntry(result, DnsResultsFor(result), WhoisResultsFor(pair))[2]
    IN  <<b.dns_similarity_bonus, b.whois_bonus>>

\* the candidate scored, which has a link
ScoredWithLinks ==
    pc = "score" /\ Len(scored_results) = 1 /\ Len(results[1].links) > 0

\* C29: the DNS comparison and the WHOIS comparison of a candidate are
\* computed against the domain of its first link only: dns_similarity_bonus
\* and whois_bonus are the same for every list of links after the first.
C29_FirstLinkOnly ==
    ScoredWithLinks =>
        LET result == results[1]
            entry  == scored_results[1]
            first  == <<result.links[1]>>
        IN  /\ entry[3] = DnsResultsFor([result EXCEPT !.links = first])
            /\ entry[4] = WhoisResultsFor(
                              compare_domains(whoisWorld, get_domain_from_email(email),
                                              get_domain_from_url(first[1])))
            /\ \A rest \in BoundedSeqs(OrderLinks, MaxLinks - 1) :
                  CandidateBonuses([result EXCEPT !.links = first \o rest])
                  = <<entry[2].dns_similarity_bonus, entry[2].whois_bonus>>

\* two links whose exchange changes both bonuses
C29_Witness ==
    /\ ScoredWithLinks
    /\ Len(results[1].links) = 2
    /\ LET swapped == CandidateBonuses([results[1] EXCEPT
                         !.links = <<results[1].links[2], results[1].links[1]>>])
       IN  /\ swapped[1] # scored_results[1][2].dns_similarity_bonus
           /\ swapped[2] # scored_results[1][2].whois_bonus

=============================================================================
